---- MODULE Spec2Model ----
(***************************************************************************)
(* Model of painting-pack-maker (src-tauri): the crop geometry of          *)
(* core/cropper.rs and the export pipeline of core/exporter.rs together    *)
(* with models/image_size.rs, models/image_data.rs and models/pack_list.rs.*)
(*                                                                         *)
(* Strings are sequences of one-character strings, so that the character   *)
(* replacement done by the sanitizers is computed, not assumed.            *)
(***************************************************************************)
EXTENDS Integers, Sequences, FiniteSets, TLC

VARIABLES
    image_dims,     \* cropper: argument (width, height) of calculate_crop_dimensions
    target_size,    \* cropper: argument (img_width, img_height)
    crop,           \* cropper: returned (width_start, height_start, crop_width, crop_height), or None
    items,          \* exporter: items_to_export / image_list, the borrowed input list
    pc,             \* exporter: position of the export call
    item_ix,        \* exporter: index of the item of the outer loop of write_images
    size_ix,        \* exporter: index of the size multiple of the inner loop
    painting,       \* exporter: (width, height) of the cropped, capped pixel buffer, or None
    painting_list,  \* exporter: the PackList<Painting> being built
    export_args,    \* exporter: the pack_name, version, id and description passed to export, or None
    pack_dir,       \* exporter: <export_path>/<sanitized_pack_name>
    files,          \* the export directory tree: path -> content
    dirs,           \* the directories created under the export root
    ops,            \* history: every file-system or codec operation attempted, in order
    panic,          \* the panic message that ended the call, or None
    pack_list,      \* pack_list.rs: the PackList under the setters: as constructed, now, and the calls made
    preview_path,   \* cropper: the source path of the preview calls, or None
    cropped_images, \* cropper: result of generate_cropped_images (buffer dimensions), or None
    single_image    \* cropper: the class and the result of the last crop_single_image, or None

vars == <<image_dims, target_size, crop, items, pc, item_ix, size_ix, painting,
          painting_list, export_args, pack_dir, files, dirs, ops, panic, pack_list,
          preview_path, cropped_images, single_image>>

cropVars == <<image_dims, target_size, crop>>
exportVars == <<items, pc, item_ix, size_ix, painting, painting_list, export_args,
                pack_dir, files, dirs, ops, panic>>
setterVars == <<pack_list>>
previewVars == <<preview_path, cropped_images, single_image>>

\* Option<T>: None is the empty sequence, Some(v) the one-element sequence
None == <<>>
Some(v) == <<v>>
IsSome(o) == o # None
unwrap(o) == o[1]

NoPanic == "none"

(***************************************************************************)
(* Bounds of the model.                                                    *)
(***************************************************************************)
MaxDim == 12        \* source sides 1..MaxDim are enumerated exhaustively
MaxRatio == 4       \* target ratio components 1..MaxRatio
MaxItems == 2       \* longest list of export items
MaxWord == 7        \* the scaled-down u32::MAX of the word-width analysis

(***************************************************************************)
(* core/cropper.rs: calculate_crop_dimensions                              *)
(*                                                                         *)
(* The arithmetic is written over the integers: for every argument the     *)
(* specifications below enumerate, each product and difference of the      *)
(* function lies in 0 .. 1600 * MaxRatio, far inside u32 (and u64 for the  *)
(* comparison), so no step of the Rust code wraps or panics there.         *)
(***************************************************************************)
\* cropper.rs:13-14, the cross-multiplied comparison, in u64
\* a slip that multiplies in the word width, the products wrapping around
is_image_wider_than_ratio_narrow(width, height, img_width, img_height) ==
    ((width * img_height) % (MaxWord + 1)) >= ((height * img_width) % (MaxWord + 1))

is_image_wider_than_ratio(width, height, img_width, img_height) ==
    (width * img_height) >= (height * img_width)

\* a slip that takes the other dimension as the limiting one
scale_factor_swapped(width, height, img_width, img_height) ==
    IF is_image_wider_than_ratio(width, height, img_width, img_height)
    THEN width \div img_width
    ELSE height \div img_height

\* a slip that divides the limiting dimension by the other ratio component
scale_factor_wrong_divisor(width, height, img_width, img_height) ==
    IF is_image_wider_than_ratio(width, height, img_width, img_height)
    THEN height \div img_width
    ELSE width \div img_height

\* cropper.rs:16-21
scale_factor(width, height, img_width, img_height) ==
    IF is_image_wider_than_ratio(width, height, img_width, img_height)
    THEN height \div img_height
    ELSE width \div img_width

\* a copy-paste slip: the width is scaled from the ratio's height component
crop_width_from_height(img_width, img_height, scale) == img_height * scale

\* cropper.rs:23
crop_width(img_width, img_height, scale) == img_width * scale

\* a slip that keeps the full source height instead of scaling the ratio
crop_height_full(height, img_height, scale) == height

\* cropper.rs:24
crop_height(height, img_height, scale) == img_height * scale

\* a slip that rounds the leading margin up instead of down
start_offset_ceil(side, crop_side) == ((side - crop_side) + 1) \div 2

\* cropper.rs:25-26, the leading margin on one axis
start_offset(side, crop_side) == (side - crop_side) \div 2

\* cropper.rs:7-29
calculate_crop_dimensions(dims, target) ==
    LET width == dims[1]
        height == dims[2]
        img_width == target[1]
        img_height == target[2]
        scale == scale_factor(width, height, img_width, img_height)
        cw == crop_width(img_width, img_height, scale)
        ch == crop_height(height, img_height, scale)
    IN  <<start_offset(width, cw), start_offset(height, ch), cw, ch>>

(***************************************************************************)
(* Specification of the crop geometry alone: every call of                 *)
(* calculate_crop_dimensions on a bounded set of positive arguments.       *)
(***************************************************************************)
\* the sides of the sources of the unit tests of cropper.rs:111-173
TestSides == {600, 800, 900, 1600}

SourceSides == (1 .. MaxDim) \cup TestSides
RatioParts == 1 .. MaxRatio

ExportIdle ==
    /\ items = <<>>
    /\ pc = "idle"
    /\ item_ix = 0
    /\ size_ix = 0
    /\ painting = None
    /\ painting_list = None
    /\ export_args = None
    /\ pack_dir = <<>>
    /\ files = {}
    /\ dirs = {}
    /\ ops = <<>>
    /\ panic = NoPanic

SettersIdle == pack_list = None

PreviewIdle ==
    /\ preview_path = None
    /\ cropped_images = None
    /\ single_image = None

CropInit ==
    /\ image_dims \in SourceSides \X SourceSides
    /\ target_size \in RatioParts \X RatioParts
    /\ crop = None
    /\ ExportIdle
    /\ SettersIdle
    /\ PreviewIdle

CalculateCrop ==
    /\ pc = "idle"
    /\ crop = None
    /\ crop' = Some(calculate_crop_dimensions(image_dims, target_size))
    /\ UNCHANGED <<image_dims, target_size>>
    /\ UNCHANGED <<exportVars, setterVars, previewVars>>

CropNext == CalculateCrop

CropSpec == CropInit /\ [][CropNext]_vars

\* names for the arguments and the parts of a returned crop
W == image_dims[1]
H == image_dims[2]
rw == target_size[1]
rh == target_size[2]
Returned == pc = "idle" /\ IsSome(crop)
rect == unwrap(crop)
x_off == rect[1]
y_off == rect[2]
crop_w == rect[3]
crop_h == rect[4]

SameRatio == W * rh = H * rw

RECURSIVE Gcd(_, _)
Gcd(a, b) == IF b = 0 THEN a ELSE Gcd(b, a % b)

(***************************************************************************)
(* C1: for every positive source size and target ratio the returned crop   *)
(* rectangle lies inside the source: x + cw <= W and y + ch <= H (with     *)
(* non-negative offsets and sides).                                        *)
(***************************************************************************)
C1_CropInsideSource ==
    Returned =>
        /\ x_off >= 0 /\ y_off >= 0 /\ crop_w >= 0 /\ crop_h >= 0
        /\ x_off + crop_w <= W
        /\ y_off + crop_h <= H

\* a crop strictly inside the source on the x axis, flush on the y axis
C1_Witness ==
    Returned /\ x_off > 0 /\ x_off + crop_w < W /\ y_off = 0 /\ crop_h = H

(***************************************************************************)
(* C2: the returned crop has exactly the target ratio: cw * rh = ch * rw,  *)
(* cw and ch being the same integer multiple of rw and rh.                 *)
(***************************************************************************)
C2_CropHasTargetRatio ==
    Returned =>
        /\ crop_w * rh = crop_h * rw
        /\ \E s \in 0 .. (W + H) : crop_w = rw * s /\ crop_h = rh * s

\* a non-empty crop of a non-square ratio that is not the whole source
C2_Witness ==
    Returned /\ crop_w > 0 /\ rw # rh /\ crop_w < W /\ crop_h < H

(***************************************************************************)
(* C3: the crop is the largest rectangle rw*s x rh*s that fits in W x H:   *)
(* scale s fits and s + 1 does not; s = H div rh when W*rh >= H*rw (the    *)
(* height limits) and s = W div rw otherwise (the width limits).  The      *)
(* scenarios of the unit tests come out as stated.                         *)
(***************************************************************************)
C3_LargestIntegerScale ==
    Returned =>
        /\ \E s \in 0 .. (W + H) :
              /\ crop_w = rw * s /\ crop_h = rh * s
              /\ rw * s <= W /\ rh * s <= H
              /\ rw * (s + 1) > W \/ rh * (s + 1) > H
              /\ (W * rh >= H * rw) => s = H \div rh
              /\ (W * rh < H * rw) => s = W \div rw
        /\ (image_dims = <<1600, 900>> /\ target_size = <<1, 1>>) => rect = <<350, 0, 900, 900>>
        /\ (image_dims = <<1600, 900>> /\ target_size = <<2, 1>>) => rect = <<0, 50, 1600, 800>>
        /\ (image_dims = <<1600, 900>> /\ target_size = <<4, 3>>) => rect = <<200, 0, 1200, 900>>
        /\ (image_dims = <<900, 1600>> /\ target_size = <<4, 3>>) => rect = <<0, 462, 900, 675>>

\* test_calc_crop_wider_image: 1600 x 900 against 4:3
C3_Witness ==
    Returned /\ image_dims = <<1600, 900>> /\ target_size = <<4, 3>>
             /\ rect = <<200, 0, 1200, 900>>

(***************************************************************************)
(* C4 as stated: whenever the source and the target have the same ratio    *)
(* (W * rh = H * rw) the crop is the full source.  Refuted by a target     *)
(* that is not in lowest terms, e.g. 3 x 3 against 2:2 gives (0,0,2,2).    *)
(***************************************************************************)
C4_Original_SameRatioFullSource ==
    (Returned /\ SameRatio) => rect = <<0, 0, W, H>>

(***************************************************************************)
(* C4 amended: when source and target have the same ratio, the crop is the *)
(* full source exactly when the source is a whole multiple of the target   *)
(* (rh divides H, equivalently rw divides W); this is always so when the   *)
(* target ratio is in lowest terms, as the first size multiple of every    *)
(* aspect class is.                                                        *)
(***************************************************************************)
C4_SameRatioWholeMultiple ==
    (Returned /\ SameRatio) =>
        /\ (H % rh = 0) <=> (W % rw = 0)
        /\ (H % rh = 0) <=> (rect = <<0, 0, W, H>>)
        /\ (Gcd(rw, rh) = 1) => rect = <<0, 0, W, H>>

\* test_calc_crop_same_ratio: 800 x 600 against 4:3
C4_Witness ==
    Returned /\ SameRatio /\ image_dims = <<800, 600>> /\ target_size = <<4, 3>>
             /\ rect = <<0, 0, 800, 600>>

(***************************************************************************)
(* C5: the crop is centred with a floor bias: on each axis the leading     *)
(* margin equals the trailing margin when the leftover is even, and the    *)
(* trailing margin is exactly one larger when the leftover is odd.         *)
(***************************************************************************)
FloorCentred(side, off, crop_side) ==
    LET leftover == side - crop_side
        trailing == side - off - crop_side
    IN  /\ (leftover % 2 = 0) => trailing = off
        /\ (leftover % 2 = 1) => trailing = off + 1

C5_CentredFloorBias ==
    Returned =>
        /\ FloorCentred(W, x_off, crop_w)
        /\ FloorCentred(H, y_off, crop_h)

\* test_calc_crop_taller_image: 900 x 1600 against 4:3 leaves 925 rows, 462 above, 463 below
C5_Witness ==
    Returned /\ (H - crop_h) % 2 = 1 /\ y_off = 462 /\ H - y_off - crop_h = 463

(***************************************************************************)
(* Strings and formatting.                                                 *)
(***************************************************************************)
\* str::replace(' ', "_") (exporter.rs:81, 82, 118, 123)
replace_space(str) == [k \in 1 .. Len(str) |-> IF str[k] = " " THEN "_" ELSE str[k]]

UpperCase == <<"A", "B", "C", "D", "E", "F", "G", "H", "I", "J", "K", "L", "M",
               "N", "O", "P", "Q", "R", "S", "T", "U", "V", "W", "X", "Y", "Z">>
LowerCase == <<"a", "b", "c", "d", "e", "f", "g", "h", "i", "j", "k", "l", "m",
               "n", "o", "p", "q", "r", "s", "t", "u", "v", "w", "x", "y", "z">>
DecimalDigits == <<"0", "1", "2", "3", "4", "5", "6", "7", "8", "9">>

Range(seq) == {seq[k] : k \in 1 .. Len(seq)}

\* char lower-casing of str::to_lowercase, on the ASCII letters (exporter.rs:122)
lower_char(c) ==
    IF c \in Range(UpperCase)
    THEN LowerCase[CHOOSE k \in 1 .. Len(UpperCase) : UpperCase[k] = c]
    ELSE c

to_lowercase(str) == [k \in 1 .. Len(str) |-> lower_char(str[k])]

\* the filter of exporter.rs:125
is_id_char(c) == c \in Range(LowerCase) \/ c \in Range(DecimalDigits) \/ c = "_"

\* exporter.rs:121-126
sanitize_pack_id(id) == SelectSeq(replace_space(to_lowercase(id)), is_id_char)

\* Display of a u32, as format!("{}", n) prints it (exporter.rs:84-85)
RECURSIVE to_string(_)
to_string(n) ==
    IF n < 10 THEN <<DecimalDigits[n + 1]>>
    ELSE to_string(n \div 10) \o <<DecimalDigits[(n % 10) + 1]>>

\* format!("{}_{}x{}", stem, width, height) (exporter.rs:84-85)
format_sized(stem, width, height) ==
    stem \o <<"_">> \o to_string(width) \o <<"x">> \o to_string(height)

DotPng == <<".", "p", "n", "g">>
SlashImages == <<"/", "i", "m", "a", "g", "e", "s">>
SlashIconPng == <<"/", "i", "c", "o", "n", ".", "p", "n", "g">>
SlashCustomPaintingsJson ==
    <<"/", "c", "u", "s", "t", "o", "m", "p", "a", "i", "n", "t", "i", "n", "g", "s",
      ".", "j", "s", "o", "n">>
SchemaUri == <<"http://json-schema.org/draft-07/schema#">>

(***************************************************************************)
(* models/image_size.rs                                                    *)
(***************************************************************************)
\* image_size.rs:15-24, ImageSize::iter
PAINTING_SIZES == <<"Square", "Wide", "LongRectangle", "Tall", "TallRectangle">>

ImageSize == Range(PAINTING_SIZES)

\* image_size.rs:26-34
get_size(image_size) ==
    CASE image_size = "Square" -> <<<<1, 1>>, <<2, 2>>, <<3, 3>>, <<4, 4>>>>
      [] image_size = "Wide" -> <<<<2, 1>>, <<4, 2>>>>
      [] image_size = "LongRectangle" -> <<<<4, 3>>>>
      [] image_size = "Tall" -> <<<<1, 2>>, <<2, 4>>>>
      [] image_size = "TallRectangle" -> <<<<3, 4>>>>

\* image_data.rs:30-32
get_sizes(data) == get_size(data.image_size)

(***************************************************************************)
(* models/pack_list.rs                                                     *)
(***************************************************************************)
\* pack_list.rs:44-53
PackList_new(pack_name, version, id, description) ==
    [pack_name |-> pack_name, schema |-> SchemaUri, version |-> version, id |-> id,
     description |-> description, paintings |-> <<>>]

\* a slip that inserts the new record in front
add_painting_front(list, new_painting) ==
    [list EXCEPT !.paintings = <<new_painting>> \o @]

\* pack_list.rs:91-93
add_painting(list, new_painting) ==
    [list EXCEPT !.paintings = Append(@, new_painting)]

(***************************************************************************)
(* The source images on disk and the codec (external).                     *)
(***************************************************************************)
PathWide == <<"w", ".", "p", "n", "g">>
PathTiny == <<"t", ".", "p", "n", "g">>
PathSmall == <<"s", ".", "p", "n", "g">>
PathTall == <<"h", ".", "p", "n", "g">>
PathLarge == <<"l", ".", "p", "n", "g">>

\* dimensions of the image a path decodes to: the 1600 x 900 source of
\* cropper.rs:199, the 800 x 600 source of cropper.rs:180, a portrait source,
\* a source wider than the export cap in every class, and a source smaller
\* than one ratio unit of Wide
source_dimensions(path) ==
    CASE path = PathWide -> <<1600, 900>>
      [] path = PathSmall -> <<800, 600>>
      [] path = PathTall -> <<900, 1600>>
      [] path = PathLarge -> <<3000, 4000>>
      [] OTHER -> <<1, 5>>

\* cropper.rs:58-71 on a decodable path: the dimensions of the returned buffer
crop_single_image(path, image_size) ==
    LET r == calculate_crop_dimensions(source_dimensions(path), get_size(image_size)[1])
    IN  <<r[3], r[4]>>

MaxExportWidth == 1024

\* DynamicImage::thumbnail(nwidth, u32::MAX) (exporter.rs:76): the buffer is
\* scaled to width nwidth, its height by the same factor, rounded, at least 1
thumbnail(buffer, nwidth) ==
    LET nh == (2 * buffer[2] * nwidth + buffer[1]) \div (2 * buffer[1])
    IN  <<nwidth, IF nh < 1 THEN 1 ELSE nh>>

\* a slip that tests the height against the cap
cap_width_by_height(buffer) ==
    IF buffer[2] > MaxExportWidth THEN thumbnail(buffer, MaxExportWidth) ELSE buffer

\* exporter.rs:75-77
cap_width(buffer) ==
    IF buffer[1] > MaxExportWidth THEN thumbnail(buffer, MaxExportWidth) ELSE buffer

(***************************************************************************)
(* core/exporter.rs                                                        *)
(***************************************************************************)
\* the file system: a set of files, at most one per path
NoManifest == None
File(path, kind, source, dims, manifest) ==
    [path |-> path, kind |-> kind, source |-> source, dims |-> dims, manifest |-> manifest]

\* std::fs::write / DynamicImage::save: create or replace the file at path
write(fs, file) == {f \in fs : f.path # file.path} \cup {file}

Op(op, item, path, ok) == [op |-> op, item |-> item, path |-> path, ok |-> ok]

\* exporter.rs:67
images_dir == pack_dir \o SlashImages

\* exporter.rs:81
sanitized_id(data) == replace_space(unwrap(data.id))

\* a slip that uses the stem as typed
sanitized_filename_raw(data) == unwrap(data.filename)

\* exporter.rs:82
sanitized_filename(data) == replace_space(unwrap(data.filename))

\* exporter.rs:85
base_filename(data, width, height) == format_sized(sanitized_filename(data), width, height)

\* exporter.rs:87
save_path(data, width, height) ==
    images_dir \o <<"/">> \o base_filename(data, width, height) \o DotPng

\* exporter.rs:84, 90-97 (name and artist are unwrapped by the caller)
Painting(data, width, height) ==
    [id |-> format_sized(sanitized_id(data), width, height),
     filename |-> base_filename(data, width, height) \o DotPng,
     name |-> unwrap(data.name),
     artist |-> unwrap(data.artist),
     width |-> width,
     height |-> height]

\* the inputs of the export calls that are enumerated
ExportPath == <<"o", "u", "t">>
PackNames == {<<"M", "y", " ", "T", "e", "s", "t", " ", "P", "a", "c", "k">>}
PackIds == {<<"M", "y", " ", "T", "e", "s", "t", " ", "I", "D", "!">>}
Versions == {<<"1", ".", "0", ".", "0">>}
Descriptions == {<<"A", " ", "p", "a", "c", "k">>}

ImageData(id, filename, name, artist, image_size) ==
    [id |-> id, filename |-> filename, name |-> name, artist |-> artist,
     image_size |-> image_size, selected |-> TRUE]

ExportItem(source_path, data) == [source_path |-> source_path, data |-> data]

IdA == <<"T", " ", "S">>
IdB == <<"i", "d">>
StemSpace == <<"a", " ", "b">>
StemUnderscore == <<"a", "_", "b">>
StemOther == <<"c">>
NameA == <<"M", "y", " ", "P">>
ArtistA == <<"T", "h", "e", " ", "A">>

\* items with all four metadata fields set
CompleteItems ==
    {ExportItem(PathWide, ImageData(Some(IdA), Some(f), Some(NameA), Some(ArtistA), c)) :
        f \in {StemSpace, StemOther}, c \in ImageSize}
    \cup {ExportItem(PathWide, ImageData(Some(IdA), Some(StemUnderscore), Some(NameA), Some(ArtistA), "Square")),
          ExportItem(PathWide, ImageData(Some(IdB), Some(StemSpace), Some(NameA), Some(ArtistA), "Square")),
          ExportItem(PathTiny, ImageData(Some(IdB), Some(StemOther), Some(NameA), Some(ArtistA), "Wide")),
          ExportItem(PathLarge, ImageData(Some(IdB), Some(StemOther), Some(NameA), Some(ArtistA), "TallRectangle"))}

\* items with a metadata field left unset (ImageData::new leaves all four None)
IncompleteItems ==
    {ExportItem(PathWide, ImageData(None, Some(StemOther), Some(NameA), Some(ArtistA), "Wide")),
     ExportItem(PathWide, ImageData(Some(IdA), None, Some(NameA), Some(ArtistA), "Wide")),
     ExportItem(PathWide, ImageData(Some(IdA), Some(StemOther), None, Some(ArtistA), "Wide")),
     ExportItem(PathWide, ImageData(Some(IdA), Some(StemOther), Some(NameA), None, "Wide")),
     ExportItem(PathWide, ImageData(None, None, None, None, "Square"))}

Items == CompleteItems \cup IncompleteItems

RECURSIVE SeqsUpTo(_, _)
SeqsUpTo(S, n) ==
    IF n = 0 THEN {<<>>}
    ELSE LET shorter == SeqsUpTo(S, n - 1)
         IN  shorter \cup {Append(q, e) : q \in shorter, e \in S}

ItemLists == SeqsUpTo(Items, MaxItems)

CropIdle ==
    /\ image_dims = <<1, 1>>
    /\ target_size = <<1, 1>>
    /\ crop = None

Init ==
    /\ CropIdle
    /\ ExportIdle
    /\ SettersIdle
    /\ PreviewIdle

\* a slip that lower-cases the directory name as well
sanitized_pack_name_lower(pack_name) == replace_space(to_lowercase(pack_name))

\* exporter.rs:118
sanitized_pack_name(pack_name) == replace_space(pack_name)

\* exporter.rs:108-133: export up to the call of write_images
export(pack_name, version, id, description, items_to_export) ==
    /\ export_args' = Some([pack_name |-> pack_name, version |-> version, id |-> id,
                            description |-> description])
    /\ items' = items_to_export
    /\ pack_dir' = ExportPath \o <<"/">> \o sanitized_pack_name(pack_name)
    /\ painting_list' =
          Some(PackList_new(pack_name, version, sanitize_pack_id(id), description))
    /\ pc' = "create_dir"
    /\ UNCHANGED <<item_ix, size_ix, painting, files, dirs, ops, panic>>
    /\ UNCHANGED <<cropVars, setterVars, previewVars>>

\* a call of export with the metadata of test_export_integration and any list of items
Export ==
    /\ pc = "idle"
    /\ \E pack_name \in PackNames, version \in Versions, id \in PackIds,
          description \in Descriptions, items_to_export \in ItemLists :
           export(pack_name, version, id, description, items_to_export)

Panicked(msg) ==
    /\ pc' = "panicked"
    /\ panic' = msg

\* exporter.rs:67-68, create_dir_all succeeds
CreateImagesDir ==
    /\ pc = "create_dir"
    /\ dirs' = dirs \cup {pack_dir, images_dir}
    /\ ops' = Append(ops, Op("create_dir_all", 0, images_dir, TRUE))
    /\ pc' = "next_item"
    /\ item_ix' = 1
    /\ UNCHANGED <<export_args, items, size_ix, painting, painting_list, pack_dir, files, panic>>
    /\ UNCHANGED <<cropVars, setterVars, previewVars>>

\* exporter.rs:68, create_dir_all fails and expect panics
CreateImagesDirFails ==
    /\ pc = "create_dir"
    /\ ops' = Append(ops, Op("create_dir_all", 0, images_dir, FALSE))
    /\ Panicked("Failed to create images directory")
    /\ UNCHANGED <<export_args, items, item_ix, size_ix, painting, painting_list, pack_dir, files, dirs>>
    /\ UNCHANGED <<cropVars, setterVars, previewVars>>

HasItem == pc = "next_item" /\ item_ix <= Len(items)
item == items[item_ix]

\* exporter.rs:70-77: the item is decoded and cropped, the buffer capped
CropItem ==
    /\ HasItem
    /\ painting' = Some(cap_width(crop_single_image(item.source_path, item.data.image_size)))
    /\ ops' = Append(ops, Op("crop_single_image", item_ix, item.source_path, TRUE))
    /\ size_ix' = 1
    /\ pc' = "save"
    /\ UNCHANGED <<export_args, items, item_ix, painting_list, pack_dir, files, dirs, panic>>
    /\ UNCHANGED <<cropVars, setterVars, previewVars>>

\* a slip that skips an undecodable item and goes on with the next one
CropItemFails_skips ==
    /\ HasItem
    /\ ops' = Append(ops, Op("crop_single_image", item_ix, item.source_path, FALSE))
    /\ item_ix' = item_ix + 1
    /\ UNCHANGED <<export_args, items, pc, size_ix, painting, painting_list, pack_dir, files, dirs, panic>>
    /\ UNCHANGED <<cropVars, setterVars, previewVars>>

\* exporter.rs:72-73: the source cannot be decoded and expect panics
CropItemFails ==
    /\ HasItem
    /\ ops' = Append(ops, Op("crop_single_image", item_ix, item.source_path, FALSE))
    /\ Panicked("Failed to re-crop image for export.")
    /\ UNCHANGED <<export_args, items, item_ix, size_ix, painting, painting_list, pack_dir, files, dirs>>
    /\ UNCHANGED <<cropVars, setterVars, previewVars>>

multiple == get_sizes(item.data)[size_ix]

\* exporter.rs:81-82: unwrap of an unset id or filename panics
SaveImageUnwrapPanics ==
    /\ pc = "save"
    /\ item.data.id = None \/ item.data.filename = None
    /\ Panicked("called Option::unwrap() on a None value")
    /\ UNCHANGED <<export_args, items, item_ix, size_ix, painting, painting_list, pack_dir, files, dirs, ops>>
    /\ UNCHANGED <<cropVars, setterVars, previewVars>>

unwrap_or_default(o) == IF IsSome(o) THEN unwrap(o) ELSE <<>>

\* a slip that falls back to an empty id or stem instead of unwrapping
SaveImage_unwrap_or_default ==
    /\ pc = "save"
    /\ LET stem == replace_space(unwrap_or_default(item.data.filename))
           path == images_dir \o <<"/">> \o format_sized(stem, multiple[1], multiple[2]) \o DotPng
       IN  /\ files' = write(files, File(path, "png", item.source_path, unwrap(painting), NoManifest))
           /\ ops' = Append(ops, Op("save", item_ix, path, TRUE))
    /\ pc' = "add_painting"
    /\ UNCHANGED <<export_args, items, item_ix, size_ix, painting, painting_list, pack_dir, dirs, panic>>
    /\ UNCHANGED <<cropVars, setterVars, previewVars>>

\* exporter.rs:79-88: the buffer is saved under the multiple's file name
\* a slip that scales the buffer to each size multiple before saving it
SaveImage_scaled_per_multiple ==
    /\ pc = "save"
    /\ IsSome(item.data.id) /\ IsSome(item.data.filename)
    /\ LET path == save_path(item.data, multiple[1], multiple[2])
           scaled == <<16 * multiple[1], 16 * multiple[2]>>
       IN  /\ files' = write(files, File(path, "png", item.source_path, scaled, NoManifest))
           /\ ops' = Append(ops, Op("save", item_ix, path, TRUE))
    /\ pc' = "add_painting"
    /\ UNCHANGED <<export_args, items, item_ix, size_ix, painting, painting_list, pack_dir, dirs, panic>>
    /\ UNCHANGED <<cropVars, setterVars, previewVars>>

SaveImage ==
    /\ pc = "save"
    /\ IsSome(item.data.id) /\ IsSome(item.data.filename)
    /\ LET path == save_path(item.data, multiple[1], multiple[2])
       IN  /\ files' = write(files, File(path, "png", item.source_path, unwrap(painting), NoManifest))
           /\ ops' = Append(ops, Op("save", item_ix, path, TRUE))
    /\ pc' = "add_painting"
    /\ UNCHANGED <<export_args, items, item_ix, size_ix, painting, painting_list, pack_dir, dirs, panic>>
    /\ UNCHANGED <<cropVars, setterVars, previewVars>>

\* exporter.rs:88: the save fails and expect panics
SaveImageFails ==
    /\ pc = "save"
    /\ IsSome(item.data.id) /\ IsSome(item.data.filename)
    /\ ops' = Append(ops, Op("save", item_ix, save_path(item.data, multiple[1], multiple[2]), FALSE))
    /\ Panicked("This shouldnt fail")
    /\ UNCHANGED <<export_args, items, item_ix, size_ix, painting, painting_list, pack_dir, files, dirs>>
    /\ UNCHANGED <<cropVars, setterVars, previewVars>>

\* exporter.rs:93-94: unwrap of an unset name or artist panics
AddPaintingUnwrapPanics ==
    /\ pc = "add_painting"
    /\ item.data.name = None \/ item.data.artist = None
    /\ Panicked("called Option::unwrap() on a None value")
    /\ UNCHANGED <<export_args, items, item_ix, size_ix, painting, painting_list, pack_dir, files, dirs, ops>>
    /\ UNCHANGED <<cropVars, setterVars, previewVars>>

\* exporter.rs:90-99: the record is appended and the loops advance
AddPainting ==
    /\ pc = "add_painting"
    /\ IsSome(item.data.name) /\ IsSome(item.data.artist)
    /\ painting_list' =
          Some(add_painting(unwrap(painting_list), Painting(item.data, multiple[1], multiple[2])))
    /\ IF size_ix < Len(get_sizes(item.data))
       THEN /\ size_ix' = size_ix + 1
            /\ pc' = "save"
            /\ UNCHANGED <<item_ix, painting>>
       ELSE /\ size_ix' = 0
            /\ item_ix' = item_ix + 1
            /\ painting' = None
            /\ pc' = "next_item"
    /\ UNCHANGED <<export_args, items, pack_dir, files, dirs, ops, panic>>
    /\ UNCHANGED <<cropVars, setterVars, previewVars>>

\* a slip that lets the manifest be written between two items
ImagesWritten_between_items == pc = "next_item"

\* exporter.rs:100, 135-136: write_images has returned
ImagesWritten == pc = "next_item" /\ item_ix > Len(items)

json_path == pack_dir \o SlashCustomPaintingsJson
icon_path == pack_dir \o SlashIconPng

\* exporter.rs:53-56, 136: write_json after write_images has returned
WriteJson ==
    /\ ImagesWritten
    /\ files' = write(files, File(json_path, "json", <<>>, <<0, 0>>, painting_list))
    /\ ops' = Append(ops, Op("write_json", 0, json_path, TRUE))
    /\ pc' = "write_icon"
    /\ UNCHANGED <<export_args, items, item_ix, size_ix, painting, painting_list, pack_dir, dirs, panic>>
    /\ UNCHANGED <<cropVars, setterVars, previewVars>>

\* exporter.rs:55: the write fails and expect panics
WriteJsonFails ==
    /\ ImagesWritten
    /\ ops' = Append(ops, Op("write_json", 0, json_path, FALSE))
    /\ Panicked("Failed to write painting list JSON file")
    /\ UNCHANGED <<export_args, items, item_ix, size_ix, painting, painting_list, pack_dir, files, dirs>>
    /\ UNCHANGED <<cropVars, setterVars, previewVars>>

\* exporter.rs:50-52, 137
WriteIcon ==
    /\ pc = "write_icon"
    /\ files' = write(files, File(icon_path, "icon", <<>>, <<0, 0>>, NoManifest))
    /\ ops' = Append(ops, Op("write_icon", 0, icon_path, TRUE))
    /\ pc' = "done"
    /\ UNCHANGED <<export_args, items, item_ix, size_ix, painting, painting_list, pack_dir, dirs, panic>>
    /\ UNCHANGED <<cropVars, setterVars, previewVars>>

\* exporter.rs:51: the write fails and expect panics
WriteIconFails ==
    /\ pc = "write_icon"
    /\ ops' = Append(ops, Op("write_icon", 0, icon_path, FALSE))
    /\ Panicked("Failed to write default icon")
    /\ UNCHANGED <<export_args, items, item_ix, size_ix, painting, painting_list, pack_dir, files, dirs>>
    /\ UNCHANGED <<cropVars, setterVars, previewVars>>

Next ==
    \/ Export
    \/ CreateImagesDir
    \/ CreateImagesDirFails
    \/ CropItem
    \/ CropItemFails
    \/ SaveImageUnwrapPanics
    \/ SaveImage
    \/ SaveImageFails
    \/ AddPaintingUnwrapPanics
    \/ AddPainting
    \/ WriteJson
    \/ WriteJsonFails
    \/ WriteIcon
    \/ WriteIconFails

Spec == Init /\ [][Next]_vars

(***************************************************************************)
(* Vocabulary of the claims about the exporter.                            *)
(***************************************************************************)
Done == pc = "done"
Aborted == pc = "panicked"

paintings == IF IsSome(painting_list) THEN unwrap(painting_list).paintings ELSE <<>>

ImageFiles == {f \in files : f.kind = "png"}
ManifestFiles == {f \in files : f.kind = "json"}
IconFiles == {f \in files : f.kind = "icon"}

IsSave(o) == o.op = "save" /\ o.ok
Saves == SelectSeq(ops, IsSave)

\* the (item, multiple) pairs of a list of items, item by item, each item's
\* multiples in the declared order of its class
RECURSIVE Slots(_)
Slots(its) ==
    IF its = <<>> THEN <<>>
    ELSE LET n == Len(its)
         IN  Slots(SubSeq(its, 1, n - 1))
                \o [m \in 1 .. Len(get_size(its[n].data.image_size)) |-> <<n, m>>]

\* the sum of k_i over the items
SumK == Len(Slots(items))

SlotItem(slot) == items[slot[1]]
SlotMultiple(slot) == get_size(SlotItem(slot).data.image_size)[slot[2]]

IsPrefix(a, b) == Len(a) <= Len(b) /\ \A k \in 1 .. Len(a) : a[k] = b[k]

(***************************************************************************)
(* C6 as stated: a successful export of N items writes exactly sum k_i     *)
(* image files under images/ and sum k_i manifest records, one icon file   *)
(* and one manifest file, also when items share an id or a filename stem.  *)
(* Refuted by the code: the file name is built from the stem and the       *)
(* multiple alone (exporter.rs:85-88), so two items of one class whose     *)
(* stems are equal after sanitizing overwrite each other's files.          *)
(***************************************************************************)
C6_Original_ExportCounts ==
    Done =>
        /\ Cardinality(ImageFiles) = SumK
        /\ Len(paintings) = SumK
        /\ Cardinality(IconFiles) = 1
        /\ Cardinality(ManifestFiles) = 1

(***************************************************************************)
(* C7 as stated: the image of item i and multiple (w, h) is written at     *)
(* images/<id>_<filename>_<w>x<h>.png and the record's filename names it.  *)
(* Refuted by the code: the id is not part of the file name.               *)
(***************************************************************************)
UnderscoredId(slot) == replace_space(unwrap(SlotItem(slot).data.id))
UnderscoredStem(slot) == replace_space(unwrap(SlotItem(slot).data.filename))
SizeSuffix(slot) ==
    <<"_">> \o to_string(SlotMultiple(slot)[1]) \o <<"x">> \o to_string(SlotMultiple(slot)[2])

NameWithId(slot) ==
    UnderscoredId(slot) \o <<"_">> \o UnderscoredStem(slot) \o SizeSuffix(slot) \o DotPng
NameWithoutId(slot) == UnderscoredStem(slot) \o SizeSuffix(slot) \o DotPng

InImages(name) == images_dir \o <<"/">> \o name

C7_Original_FileNameWithId ==
    LET slots == Slots(items)
    IN  /\ \A p \in 1 .. Len(Saves) : Saves[p].path = InImages(NameWithId(slots[p]))
        /\ \A p \in 1 .. Len(paintings) : paintings[p].filename = NameWithId(slots[p])

(***************************************************************************)
(* C7 amended: the image of item i and multiple (w, h) is written at       *)
(* images/<filename>_<w>x<h>.png, <filename> being the item's stem with    *)
(* spaces replaced by underscores; the identifier is not part of the file  *)
(* name (with its spaces replaced it forms the record's id <id>_<w>x<h>);  *)
(* the record's filename field names that same file, which exists.         *)
(***************************************************************************)
C7_FileNameFromStem ==
    LET slots == Slots(items)
        saves == Saves
    IN  /\ \A p \in 1 .. Len(saves) :
              /\ saves[p].item = slots[p][1]
              /\ saves[p].path = InImages(NameWithoutId(slots[p]))
              /\ \E f \in ImageFiles : f.path = saves[p].path
        /\ \A p \in 1 .. Len(paintings) :
              /\ paintings[p].filename = NameWithoutId(slots[p])
              /\ paintings[p].id = UnderscoredId(slots[p]) \o SizeSuffix(slots[p])
              /\ InImages(paintings[p].filename) = saves[p].path
              /\ \E f \in ImageFiles : f.path = InImages(paintings[p].filename)

\* an export that is done and wrote a_b_4x4.png for the stem "a b" and the id "T S"
C7_Witness ==
    /\ Done
    /\ \E p \in 1 .. Len(paintings) :
          /\ SlotItem(Slots(items)[p]).data.filename = Some(StemSpace)
          /\ SlotItem(Slots(items)[p]).data.id = Some(IdA)
          /\ paintings[p].filename = <<"a", "_", "b", "_", "4", "x", "4", ".", "p", "n", "g">>
          /\ paintings[p].id = <<"T", "_", "S", "_", "4", "x", "4">>
          /\ \E f \in ImageFiles : f.path = InImages(paintings[p].filename)

(***************************************************************************)
(* C8: the record list is append-only and ordered: the records are those   *)
(* of the items in input order and, within an item, of its multiples in    *)
(* declared order, the record of (w, h) carrying width w and height h; all *)
(* of them after a completed export; no step removes or reorders a record. *)
(***************************************************************************)
RecordMatchesSlot(record, slot) ==
    /\ record.width = SlotMultiple(slot)[1]
    /\ record.height = SlotMultiple(slot)[2]
    /\ record.name = unwrap(SlotItem(slot).data.name)
    /\ record.artist = unwrap(SlotItem(slot).data.artist)
    /\ record.id = UnderscoredId(slot) \o SizeSuffix(slot)

RecordsInOrder ==
    LET slots == Slots(items)
    IN  /\ Len(paintings) <= Len(slots)
        /\ \A p \in 1 .. Len(paintings) : RecordMatchesSlot(paintings[p], slots[p])
        /\ Done => Len(paintings) = Len(slots)

C8_RecordsAppendOnlyOrdered ==
    /\ []RecordsInOrder
    /\ [][IsPrefix(paintings, paintings')]_vars

\* a Wide item followed by a Square item: six records, 2x1 4x2 1x1 2x2 3x3 4x4
C8_Witness ==
    /\ Done
    /\ Len(items) = 2
    /\ items[1].data.image_size = "Wide" /\ items[2].data.image_size = "Square"
    /\ [p \in 1 .. Len(paintings) |-> <<paintings[p].width, paintings[p].height>>]
          = <<<<2, 1>>, <<4, 2>>, <<1, 1>>, <<2, 2>>, <<3, 3>>, <<4, 4>>>>

(***************************************************************************)
(* C9: if an item of the export list has no identifier or no filename stem *)
(* the call is aborted: the export never gets past that item, no image is  *)
(* written for it or for a later item, and neither the manifest file nor   *)
(* the icon file is written.                                               *)
(***************************************************************************)
LacksFileMetadata(it) == it.data.id = None \/ it.data.filename = None

C9_MissingIdOrStemAborts ==
    \A i \in 1 .. Len(items) :
        LacksFileMetadata(items[i]) =>
            /\ item_ix <= i
            /\ ~Done /\ pc # "write_icon"
            /\ (item_ix = i /\ pc \notin {"next_item", "save"}) => Aborted
            /\ \A k \in 1 .. Len(ops) :
                  /\ ops[k].op = "save" => ops[k].item < i
                  /\ ops[k].op \notin {"write_json", "write_icon"}
            /\ ManifestFiles = {} /\ IconFiles = {}

\* the second item has no id: the unwrap panics, the first item's files stay
C9_Witness ==
    /\ Aborted
    /\ panic = "called Option::unwrap() on a None value"
    /\ Len(items) = 2 /\ item_ix = 2
    /\ items[2].data.id = None
    /\ ~LacksFileMetadata(items[1])
    /\ Len(Saves) = Len(get_sizes(items[1].data))
    /\ ImageFiles # {}

(***************************************************************************)
(* C10: a failure to create the images directory, to decode a source or to *)
(* write an image aborts the export at once: the failing operation is the  *)
(* last one attempted, it leaves the files as they were, and after it no   *)
(* file, record or directory changes (no rollback, no later operation).    *)
(***************************************************************************)
Failed == \E k \in 1 .. Len(ops) : ~ops[k].ok

FailureIsLastOperation ==
    \A k \in 1 .. Len(ops) : ~ops[k].ok => (k = Len(ops) /\ Aborted)

C10_IoFailureAbortsNoRollback ==
    /\ []FailureIsLastOperation
    /\ [][(~Failed /\ Failed') =>
            (files' = files /\ painting_list' = painting_list /\ dirs' = dirs)]_vars
    /\ [][Failed =>
            (files' = files /\ ops' = ops /\ painting_list' = painting_list /\ dirs' = dirs)]_vars

\* the save of the second item's first multiple fails; the first item's files are in place
C10_Witness ==
    /\ Aborted
    /\ panic = "This shouldnt fail"
    /\ Len(items) = 2 /\ item_ix = 2
    /\ ~ops[Len(ops)].ok /\ ops[Len(ops)].op = "save"
    /\ Cardinality(ImageFiles) = Len(get_sizes(items[1].data))
    /\ Len(paintings) = Cardinality(ImageFiles)

(***************************************************************************)
(* models/pack_list.rs: Default, check_no_input and the setters            *)
(***************************************************************************)
MaxCalls == 3       \* longest sequence of setter calls

DefaultName == <<"D", "e", "f", "a", "u", "l", "t">>
DefaultVersion == <<"1", ".", "0", ".", "0">>
DefaultDescription ==
    <<"A", " ", "l", "i", "s", "t", " ", "o", "f", " ", "p", "a", "i", "n", "t", "i", "n", "g", "s", " ", "i", "n", " ", "t", "h", "e", " ", "g", "a", "l", "l", "e", "r", "y">>

\* pack_list.rs:16-32, random_int being the number drawn in 56000..=128000
PackList_default(random_int) ==
    [pack_name |-> DefaultName, schema |-> SchemaUri, version |-> DefaultVersion,
     id |-> to_string(random_int), description |-> DefaultDescription, paintings |-> <<>>]

\* the characters str::trim removes that are enumerated
WhiteSpace == {" ", "\t", "\n"}

RECURSIVE trim_start(_)
trim_start(str) ==
    IF str # <<>> /\ Head(str) \in WhiteSpace THEN trim_start(Tail(str)) ELSE str

RECURSIVE trim_end(_)
trim_end(str) ==
    IF str # <<>> /\ str[Len(str)] \in WhiteSpace
    THEN trim_end(SubSeq(str, 1, Len(str) - 1))
    ELSE str

\* str::trim (pack_list.rs:35)
trim(str) == trim_end(trim_start(str))

is_empty(str) == Len(str) = 0

\* a slip that stores the trimmed input
check_no_input_trimmed(input) ==
    IF is_empty(trim(input)) THEN None ELSE Some(trim(input))

\* pack_list.rs:34-40
check_no_input(input) ==
    IF is_empty(trim(input)) THEN None ELSE Some(input)

\* pack_list.rs:55-60
set_pack_name(list, pack_name) ==
    LET checked == check_no_input(pack_name)
    IN  IF IsSome(checked) THEN [list EXCEPT !.pack_name = unwrap(checked)] ELSE list

\* pack_list.rs:70-75
set_version(list, version) ==
    LET checked == check_no_input(version)
    IN  IF IsSome(checked) THEN [list EXCEPT !.version = unwrap(checked)] ELSE list

\* pack_list.rs:77-82
set_id(list, id) ==
    LET checked == check_no_input(id)
    IN  IF IsSome(checked) THEN [list EXCEPT !.id = unwrap(checked)] ELSE list

\* pack_list.rs:84-89
set_description(list, description) ==
    LET checked == check_no_input(description)
    IN  IF IsSome(checked) THEN [list EXCEPT !.description = unwrap(checked)] ELSE list

\* the arguments of the setter calls that are enumerated: two blank, two not
ArgEmpty == <<>>
ArgBlank == <<" ", "\t">>
ArgPadded == <<" ", "V", " ">>
ArgPlain == <<"n">>
SetterArgs == {ArgEmpty, ArgBlank, ArgPadded, ArgPlain}

\* the lists the setters start from: PackList::default() and the PackList::new
\* of test_packlist_new
InitialLists ==
    {PackList_default(56000),
     PackList_new(<<"T", "e", "s", "t", " ", "P", "a", "c", "k">>, <<"1", ".", "1", ".", "0">>, <<"t", "e", "s", "t", "_", "i", "d">>,
                  <<"A", " ", "t", "e", "s", "t", " ", "d", "e", "s", "c", "r", "i", "p", "t", "i", "o", "n">>)}

SetterInit ==
    /\ CropIdle
    /\ ExportIdle
    /\ PreviewIdle
    /\ \E list \in InitialLists :
          pack_list = Some([initial |-> list, list |-> list, calls |-> <<>>])

the_list == unwrap(pack_list).list
the_calls == unwrap(pack_list).calls

\* one call on the list: the list becomes result, the call is recorded
Called(setter, arg, result) ==
    /\ IsSome(pack_list)
    /\ Len(the_calls) < MaxCalls
    /\ pack_list' = Some([unwrap(pack_list) EXCEPT
                            !.list = result, !.calls = Append(@, <<setter, arg>>)])
    /\ UNCHANGED <<cropVars, exportVars, previewVars>>

SetPackName == \E arg \in SetterArgs : Called("set_pack_name", arg, set_pack_name(the_list, arg))
SetVersion == \E arg \in SetterArgs : Called("set_version", arg, set_version(the_list, arg))
SetId == \E arg \in SetterArgs : Called("set_id", arg, set_id(the_list, arg))
SetDescription ==
    \E arg \in SetterArgs : Called("set_description", arg, set_description(the_list, arg))

\* pack_list.rs:91-93 on a PackList<i32>, as in test_add_painting
AddPaintingCall == Called("add_painting", <<>>, add_painting(the_list, 100))

SetterNext ==
    \/ SetPackName
    \/ SetVersion
    \/ SetId
    \/ SetDescription
    \/ AddPaintingCall

SetterSpec == SetterInit /\ [][SetterNext]_vars

(***************************************************************************)
(* C11: after any sequence of setter calls each of pack_name, version, id  *)
(* and description holds the argument of the most recent call of its       *)
(* setter whose argument was not empty or whitespace-only, verbatim, or    *)
(* the initial value if there was none; a call with a blank argument       *)
(* changes nothing; a setter changes neither another field nor the record  *)
(* list.                                                                   *)
(***************************************************************************)
Blank(arg) == \A k \in 1 .. Len(arg) : arg[k] \in WhiteSpace

Setters == {"set_pack_name", "set_version", "set_id", "set_description"}

FieldOf(setter, list) ==
    CASE setter = "set_pack_name" -> list.pack_name
      [] setter = "set_version" -> list.version
      [] setter = "set_id" -> list.id
      [] setter = "set_description" -> list.description

LastValid(setter) ==
    LET log == the_calls
        valid == {k \in 1 .. Len(log) : log[k][1] = setter /\ ~Blank(log[k][2])}
    IN  IF valid = {} THEN FieldOf(setter, unwrap(pack_list).initial)
        ELSE log[CHOOSE k \in valid : \A m \in valid : m <= k][2]

FieldsHoldLastValid ==
    IsSome(pack_list) =>
        /\ \A setter \in Setters : FieldOf(setter, the_list) = LastValid(setter)
        /\ the_list.schema = unwrap(pack_list).initial.schema

SetterFrame ==
    (IsSome(pack_list) /\ the_calls' # the_calls) =>
        LET call == the_calls'[Len(the_calls')]
        IN  call[1] \in Setters =>
              /\ \A other \in Setters \ {call[1]} :
                    FieldOf(other, the_list') = FieldOf(other, the_list)
              /\ the_list'.schema = the_list.schema
              /\ the_list'.paintings = the_list.paintings
              /\ Blank(call[2]) => the_list' = the_list
              /\ ~Blank(call[2]) => FieldOf(call[1], the_list') = call[2]

C11_SettersKeepLastValid ==
    /\ []FieldsHoldLastValid
    /\ [][SetterFrame]_vars

\* set_id(" V "), a record added, then set_id(" \t"): the id is " V ", the record stays
C11_Witness ==
    /\ IsSome(pack_list)
    /\ the_calls = <<<<"set_id", ArgPadded>>, <<"add_painting", <<>>>>, <<"set_id", ArgBlank>>>>
    /\ the_list.id = ArgPadded
    /\ the_list.paintings = <<100>>
    /\ the_list.pack_name = unwrap(pack_list).initial.pack_name

(***************************************************************************)
(* core/cropper.rs: generate_cropped_images and crop_single_image          *)
(***************************************************************************)
PreviewPaths == {PathWide, PathSmall, PathTall, PathLarge, PathTiny}

PreviewInit ==
    /\ CropIdle
    /\ ExportIdle
    /\ SettersIdle
    /\ \E path \in PreviewPaths : preview_path = Some(path)
    /\ cropped_images = None
    /\ single_image = None

\* the state of a call: what it returned ("Ok", "Err", or "running") and its vector
Call(result, images) == [result |-> result, images |-> images]

\* a slip that puts the new buffer first
push_front(vec, value) == <<value>> \o vec

\* Vec::push (cropper.rs:48)
push(vec, value) == Append(vec, value)

\* cropper.rs:36-38: the vector is created and the source decoded
GenerateOpen ==
    /\ IsSome(preview_path)
    /\ cropped_images = None
    /\ cropped_images' = Some(Call("running", <<>>))
    /\ UNCHANGED <<preview_path, single_image>>
    /\ UNCHANGED <<cropVars, exportVars, setterVars>>

\* cropper.rs:37: open fails and ? returns the error
GenerateOpenFails ==
    /\ IsSome(preview_path)
    /\ cropped_images = None
    /\ cropped_images' = Some(Call("Err", <<>>))
    /\ UNCHANGED <<preview_path, single_image>>
    /\ UNCHANGED <<cropVars, exportVars, setterVars>>

\* cropper.rs:40-49: one turn of the loop over ImageSize::iter()
GeneratePush ==
    /\ IsSome(cropped_images)
    /\ unwrap(cropped_images).result = "running"
    /\ LET images == unwrap(cropped_images).images
           turn == Len(images) + 1
       IN  /\ turn <= Len(PAINTING_SIZES)
           /\ LET size_variant == PAINTING_SIZES[turn]
                  target == get_size(size_variant)[1]
                  r == calculate_crop_dimensions(source_dimensions(unwrap(preview_path)), target)
                  crop_preview == <<r[3], r[4]>>
              IN  cropped_images' = Some(Call("running", push(images, crop_preview)))
    /\ UNCHANGED <<preview_path, single_image>>
    /\ UNCHANGED <<cropVars, exportVars, setterVars>>

\* cropper.rs:51: Ok(cropped_images)
GenerateReturn ==
    /\ IsSome(cropped_images)
    /\ unwrap(cropped_images).result = "running"
    /\ Len(unwrap(cropped_images).images) = Len(PAINTING_SIZES)
    /\ cropped_images' = Some(Call("Ok", unwrap(cropped_images).images))
    /\ UNCHANGED <<preview_path, single_image>>
    /\ UNCHANGED <<cropVars, exportVars, setterVars>>

\* cropper.rs:58-71 on a decodable path
CropSingleImage ==
    /\ IsSome(preview_path)
    /\ \E image_size \in ImageSize :
          single_image' = Some([image_size |-> image_size, result |-> "Ok",
                                image |-> Some(crop_single_image(unwrap(preview_path), image_size))])
    /\ UNCHANGED <<preview_path, cropped_images>>
    /\ UNCHANGED <<cropVars, exportVars, setterVars>>

\* cropper.rs:62: open fails and ? returns the error
CropSingleImageFails ==
    /\ IsSome(preview_path)
    /\ \E image_size \in ImageSize :
          single_image' = Some([image_size |-> image_size, result |-> "Err", image |-> None])
    /\ UNCHANGED <<preview_path, cropped_images>>
    /\ UNCHANGED <<cropVars, exportVars, setterVars>>

PreviewNext ==
    \/ GenerateOpen
    \/ GenerateOpenFails
    \/ GeneratePush
    \/ GenerateReturn
    \/ CropSingleImage
    \/ CropSingleImageFails

PreviewSpec == PreviewInit /\ [][PreviewNext]_vars

(***************************************************************************)
(* C12: generate_cropped_images on a decodable path returns exactly five   *)
(* buffers, in the order Square, Wide, LongRectangle, Tall, TallRectangle, *)
(* the buffer at position i having the width and height that               *)
(* calculate_crop_dimensions gives for the source size and the first size  *)
(* multiple of class i; crop_single_image for class c returns a buffer of  *)
(* the dimensions of position c.                                           *)
(***************************************************************************)
DeclaredOrder == <<"Square", "Wide", "LongRectangle", "Tall", "TallRectangle">>
FirstMultiple == <<<<1, 1>>, <<2, 1>>, <<4, 3>>, <<1, 2>>, <<3, 4>>>>

PositionOf(class) == CHOOSE i \in 1 .. Len(DeclaredOrder) : DeclaredOrder[i] = class

ExpectedBuffer(path, i) ==
    LET r == calculate_crop_dimensions(source_dimensions(path), FirstMultiple[i])
    IN  <<r[3], r[4]>>

GeneratedOk == IsSome(cropped_images) /\ unwrap(cropped_images).result = "Ok"
SingleOk == IsSome(single_image) /\ unwrap(single_image).result = "Ok"

C12_PreviewsPerClassInOrder ==
    /\ GeneratedOk =>
          LET images == unwrap(cropped_images).images
          IN  /\ Len(images) = 5
              /\ \A i \in 1 .. 5 : images[i] = ExpectedBuffer(unwrap(preview_path), i)
    /\ SingleOk =>
          LET single == unwrap(single_image)
          IN  /\ single.image =
                    Some(ExpectedBuffer(unwrap(preview_path), PositionOf(single.image_size)))
              /\ GeneratedOk =>
                    unwrap(single.image) =
                        unwrap(cropped_images).images[PositionOf(single.image_size)]

\* the 1600 x 900 source of test_generate_cropped_images_success, and its Tall crop
C12_Witness ==
    /\ preview_path = Some(PathWide)
    /\ GeneratedOk
    /\ unwrap(cropped_images).images =
          <<<<900, 900>>, <<1600, 800>>, <<1200, 900>>, <<450, 900>>, <<675, 900>>>>
    /\ SingleOk
    /\ unwrap(single_image).image_size = "Tall"
    /\ unwrap(single_image).image = Some(<<450, 900>>)

(***************************************************************************)
(* core/exporter.rs: export over pack names and ids of every shape         *)
(***************************************************************************)
MaxNameLen == 2     \* longest enumerated pack name or id, the test's own aside

\* an upper-case and a lower-case letter, a space, an underscore, a
\* punctuation mark and a digit
NameChars == {"M", "y", " ", "_", "!", "7"}

PackStrings == SeqsUpTo(NameChars, MaxNameLen)

TestPackName == <<"M", "y", " ", "T", "e", "s", "t", " ", "P", "a", "c", "k">>
TestPackId == <<"M", "y", " ", "T", "e", "s", "t", " ", "I", "D", "!">>

\* the (pack_name, id) pairs of the calls: each varies against the test's value of the other
PackNamesAndIds ==
    {<<pack_name, TestPackId>> : pack_name \in PackStrings \cup {TestPackName}}
        \cup {<<TestPackName, id>> : id \in PackStrings}

\* no item, a complete item, an item without id, an item without name
PackItemLists ==
    {<<>>,
     <<ExportItem(PathSmall, ImageData(Some(IdA), Some(StemSpace), Some(NameA), Some(ArtistA), "Square"))>>,
     <<ExportItem(PathSmall, ImageData(None, Some(StemSpace), Some(NameA), Some(ArtistA), "Tall"))>>,
     <<ExportItem(PathSmall, ImageData(Some(IdA), Some(StemSpace), None, Some(ArtistA), "Tall"))>>}

PackExport ==
    /\ pc = "idle"
    /\ \E pair \in PackNamesAndIds, version \in Versions, description \in Descriptions,
          items_to_export \in PackItemLists :
           export(pair[1], version, pair[2], description, items_to_export)

PackNext ==
    \/ PackExport
    \/ CreateImagesDir
    \/ CreateImagesDirFails
    \/ CropItem
    \/ CropItemFails
    \/ SaveImageUnwrapPanics
    \/ SaveImage
    \/ SaveImageFails
    \/ AddPaintingUnwrapPanics
    \/ AddPainting
    \/ WriteJson
    \/ WriteJsonFails
    \/ WriteIcon
    \/ WriteIconFails

PackSpec == Init /\ [][PackNext]_vars

(***************************************************************************)
(* C13: the bundle directory is <export_path>/<pack name with every space  *)
(* replaced by an underscore, nothing else changed>; the manifest's name   *)
(* is the pack name as passed; the manifest's id is the passed id          *)
(* lower-cased, spaces replaced by underscores, every character other than *)
(* a lower-case ASCII letter, a digit or an underscore dropped.            *)
(* "My Test Pack" gives My_Test_Pack and "My Test ID!" gives my_test_id.   *)
(***************************************************************************)
IdAlphabet ==
    {"a", "b", "c", "d", "e", "f", "g", "h", "i", "j", "k", "l", "m", "n", "o", "p", "q",
     "r", "s", "t", "u", "v", "w", "x", "y", "z",
     "0", "1", "2", "3", "4", "5", "6", "7", "8", "9", "_"}

\* what one character of the passed id contributes to the bundle id (M, T, I
\* and D are the upper-case letters of the enumerated ids)
IdCharResult(c) ==
    LET lowered ==
            CASE c = "M" -> "m"
              [] c = "T" -> "t"
              [] c = "I" -> "i"
              [] c = "D" -> "d"
              [] c = " " -> "_"
              [] OTHER -> c
    IN  IF lowered \in IdAlphabet THEN <<lowered>> ELSE <<>>

RECURSIVE ExpectedPackId(_)
ExpectedPackId(id) ==
    IF id = <<>> THEN <<>> ELSE IdCharResult(Head(id)) \o ExpectedPackId(Tail(id))

DirName == SubSeq(pack_dir, Len(ExportPath) + 2, Len(pack_dir))

DirNameIsUnderscoredName(pack_name) ==
    /\ SubSeq(pack_dir, 1, Len(ExportPath) + 1) = ExportPath \o <<"/">>
    /\ Len(DirName) = Len(pack_name)
    /\ \A k \in 1 .. Len(pack_name) :
          DirName[k] = IF pack_name[k] = " " THEN "_" ELSE pack_name[k]

ManifestNamesPack(list, args) ==
    /\ list.pack_name = args.pack_name
    /\ list.id = ExpectedPackId(args.id)
    /\ \A k \in 1 .. Len(list.id) : list.id[k] \in IdAlphabet

C13_PackNameAndIdSanitized ==
    IsSome(export_args) =>
        LET args == unwrap(export_args)
        IN  /\ DirNameIsUnderscoredName(args.pack_name)
            /\ ManifestNamesPack(unwrap(painting_list), args)
            /\ \A f \in ManifestFiles :
                  /\ ManifestNamesPack(unwrap(f.manifest), args)
                  /\ SubSeq(f.path, 1, Len(pack_dir)) = pack_dir
            /\ args.pack_name = TestPackName =>
                  DirName = <<"M", "y", "_", "T", "e", "s", "t", "_", "P", "a", "c", "k">>
            /\ args.id = TestPackId =>
                  unwrap(painting_list).id = <<"m", "y", "_", "t", "e", "s", "t", "_", "i", "d">>

\* a finished export of pack "M y" with id "My Test ID!": directory out/M_y,
\* manifest with name "M y" and id my_test_id
C13_Witness ==
    /\ Done
    /\ IsSome(export_args)
    /\ unwrap(export_args).pack_name = <<"M", " ">>
    /\ pack_dir = <<"o", "u", "t", "/", "M", "_">>
    /\ \E f \in ManifestFiles :
          /\ unwrap(f.manifest).pack_name = <<"M", " ">>
          /\ unwrap(f.manifest).id = <<"m", "y", "_", "t", "e", "s", "t", "_", "i", "d">>

(***************************************************************************)
(* C14: the pixel buffer the exporter writes for an item is at most 1024   *)
(* wide: a crop at most 1024 wide is written with its dimensions           *)
(* unchanged, a wider crop is scaled to width exactly 1024, its height by  *)
(* the same factor, rounded.                                               *)
(***************************************************************************)
WidthCap == 1024

\* the crop of the current item, before the cap
ItemCrop ==
    LET r == calculate_crop_dimensions(source_dimensions(item.source_path),
                                       FirstMultiple[PositionOf(item.data.image_size)])
    IN  <<r[3], r[4]>>

\* |h - c[2] * WidthCap / c[1]| <= 1/2
HeightScaledAlike(h, c) ==
    LET d == 2 * (h * c[1] - c[2] * WidthCap)
    IN  d <= c[1] /\ -d <= c[1]

BufferIsCappedCrop ==
    (pc \in {"save", "add_painting"}) =>
        LET buffer == unwrap(painting)
        IN  /\ ItemCrop[1] <= WidthCap => buffer = ItemCrop
            /\ ItemCrop[1] > WidthCap =>
                  /\ buffer[1] = WidthCap
                  /\ HeightScaledAlike(buffer[2], ItemCrop)

LastOp == ops[Len(ops)]

WrittenIsBuffer ==
    (pc = "add_painting") =>
        \E f \in ImageFiles : f.path = LastOp.path /\ f.dims = unwrap(painting)

C14_WrittenWidthAtMostCap ==
    /\ BufferIsCappedCrop
    /\ WrittenIsBuffer
    /\ \A f \in ImageFiles : f.dims[1] <= WidthCap

\* the 3:4 crop of the 3000 x 4000 source is written as 1024 x 1365, after a
\* 900 x 900 crop was written unchanged
C14_Witness ==
    /\ pc = "add_painting"
    /\ item.source_path = PathLarge
    /\ ItemCrop = <<3000, 4000>>
    /\ \E f \in ImageFiles : f.path = LastOp.path /\ f.dims = <<1024, 1365>>
    /\ \E f \in ImageFiles : f.dims = <<900, 900>>

(***************************************************************************)
(* core/cropper.rs: calculate_crop_dimensions over the whole word range.   *)
(* TLC's integers are 32 bits wide, so u32 is scaled down to 0 .. MaxWord  *)
(* and u64 to 0 .. (MaxWord + 1)^2 - 1, a type that holds every product of *)
(* two words as u64 does for u32; all four arguments range over every      *)
(* positive word.                                                          *)
(***************************************************************************)
Word == 0 .. MaxWord
WideWord == 0 .. ((MaxWord + 1) * (MaxWord + 1) - 1)

WordInit ==
    /\ image_dims \in (1 .. MaxWord) \X (1 .. MaxWord)
    /\ target_size \in (1 .. MaxWord) \X (1 .. MaxWord)
    /\ crop = None
    /\ ExportIdle
    /\ SettersIdle
    /\ PreviewIdle

WordNext == CalculateCrop

WordSpec == WordInit /\ [][WordNext]_vars

(***************************************************************************)
(* C15: for all positive source sizes and target ratios no arithmetic step *)
(* of calculate_crop_dimensions leaves its unsigned type: the two cross    *)
(* products fit the wide type, rw * scale <= W and rh * scale <= H, so the *)
(* products and the subtractions W - cw and H - ch fit the word; when      *)
(* scale is 0 the result is the zero-area rectangle at (W div 2, H div 2). *)
(***************************************************************************)
TheScale == scale_factor(W, H, rw, rh)
TheCropWidth == crop_width(rw, rh, TheScale)
TheCropHeight == crop_height(H, rh, TheScale)

C15_NoStepLeavesItsType ==
    Returned =>
        /\ W * rh \in WideWord
        /\ H * rw \in WideWord
        /\ TheScale \in Word
        /\ TheCropWidth \in Word /\ TheCropWidth = rw * TheScale /\ TheCropWidth <= W
        /\ TheCropHeight \in Word /\ TheCropHeight = rh * TheScale /\ TheCropHeight <= H
        /\ W - TheCropWidth \in Word
        /\ H - TheCropHeight \in Word
        /\ rect = <<(W - TheCropWidth) \div 2, (H - TheCropHeight) \div 2,
                    TheCropWidth, TheCropHeight>>
        /\ \A k \in 1 .. 4 : rect[k] \in Word
        /\ TheScale = 0 => rect = <<W \div 2, H \div 2, 0, 0>>

\* a 5 x 7 source and the ratio 7:6: both cross products exceed the word,
\* the scale is 0 and the result is the empty rectangle at (2, 3)
C15_Witness ==
    /\ Returned
    /\ image_dims = <<5, 7>>
    /\ target_size = <<7, 6>>
    /\ W * rh > MaxWord
    /\ H * rw > MaxWord
    /\ TheScale = 0
    /\ rect = <<2, 3, 0, 0>>

(***************************************************************************)
(* C16: within one export item the source is decoded, cropped and capped   *)
(* once and that one buffer is written for every size multiple: the image  *)
(* files of one item all have the same pixel dimensions, while the         *)
(* item's manifest records differ per multiple in the recorded width and   *)
(* height (and the size suffix made of them), not in name or artist.       *)
(***************************************************************************)
OpsOf(kind, i) == {k \in 1 .. Len(ops) : ops[k].op = kind /\ ops[k].item = i}

DecodedOncePerItem ==
    \A i \in 1 .. Len(items) :
        /\ Cardinality(OpsOf("crop_single_image", i)) <= 1
        /\ \A s \in OpsOf("save", i) :
              \E c \in OpsOf("crop_single_image", i) : c < s /\ ops[c].ok

\* the item whose save wrote the file now at path: the last successful save there
Writer(path) ==
    LET saves == {k \in 1 .. Len(ops) : IsSave(ops[k]) /\ ops[k].path = path}
    IN  ops[CHOOSE k \in saves : \A m \in saves : m <= k].item

FilesOfItem(i) == {f \in ImageFiles : Writer(f.path) = i}

OneBufferPerItem ==
    \A i \in 1 .. Len(items) :
        /\ \A f, g \in FilesOfItem(i) : f.dims = g.dims
        /\ (i = item_ix /\ IsSome(painting)) =>
              \A f \in FilesOfItem(i) : f.dims = unwrap(painting)

RecordsDifferInSizeOnly ==
    LET slots == Slots(items)
    IN  \A p, q \in 1 .. Len(paintings) :
            (p # q /\ slots[p][1] = slots[q][1]) =>
                /\ <<paintings[p].width, paintings[p].height>>
                      # <<paintings[q].width, paintings[q].height>>
                /\ paintings[p].name = paintings[q].name
                /\ paintings[p].artist = paintings[q].artist

BufferKeptWithinItem ==
    (pc \in {"save", "add_painting"} /\ pc' \in {"save", "add_painting"}) =>
        painting' = painting

C16_OneBufferForAllMultiples ==
    /\ [](DecodedOncePerItem /\ OneBufferPerItem /\ RecordsDifferInSizeOnly)
    /\ [][BufferKeptWithinItem]_vars

\* a finished export of one Wide item of the 1600 x 900 source: one decode,
\* two files of 1024 x 512 pixels, records 2x1 and 4x2
C16_Witness ==
    /\ Done
    /\ Len(items) = 1
    /\ items[1].data.image_size = "Wide"
    /\ Cardinality(OpsOf("crop_single_image", 1)) = 1
    /\ Cardinality(FilesOfItem(1)) = 2
    /\ \A f \in FilesOfItem(1) : f.dims = <<1024, 512>>
    /\ Len(paintings) = 2
    /\ <<paintings[1].width, paintings[1].height>> = <<2, 1>>
    /\ <<paintings[2].width, paintings[2].height>> = <<4, 2>>

(***************************************************************************)
(* C17: at every point of an export run, the point of an abort included,   *)
(* every record already appended names in its filename an image file       *)
(* already written under images/, and the image files written so far       *)
(* outnumber the records by at most one; the manifest is written only      *)
(* after the image files of all items and all size multiples, and the      *)
(* icon only after the manifest.                                           *)
(***************************************************************************)
ImagesPrefix == pack_dir \o <<"/", "i", "m", "a", "g", "e", "s", "/">>

RecordsNameWrittenFiles ==
    \A p \in 1 .. Len(paintings) :
        \E f \in ImageFiles : f.path = ImagesPrefix \o paintings[p].filename

WritesLeadRecordsByAtMostOne ==
    /\ Len(paintings) <= Len(Saves)
    /\ Len(Saves) <= Len(paintings) + 1

OpsOfKind(kind) == {k \in 1 .. Len(ops) : ops[k].op = kind}

ManifestAfterAllImages ==
    /\ ManifestFiles # {} => \E j \in OpsOfKind("write_json") : ops[j].ok
    /\ \A j \in OpsOfKind("write_json") :
          /\ Cardinality({k \in 1 .. j - 1 : IsSave(ops[k])}) = SumK
          /\ Len(Saves) = SumK
          /\ Len(paintings) = SumK
          /\ \A k \in OpsOfKind("save") \cup OpsOfKind("crop_single_image") : k < j

IconAfterManifest ==
    /\ IconFiles # {} => \E c \in OpsOfKind("write_icon") : ops[c].ok
    /\ \A c \in OpsOfKind("write_icon") :
          /\ ManifestFiles # {}
          /\ \E j \in OpsOfKind("write_json") : j < c /\ ops[j].ok

C17_RecordsFollowFilesManifestLast ==
    /\ RecordsNameWrittenFiles
    /\ WritesLeadRecordsByAtMostOne
    /\ ManifestAfterAllImages
    /\ IconAfterManifest

\* an abort between the third save and its record: three files, two records,
\* no manifest and no icon
C17_Witness ==
    /\ Aborted
    /\ Len(Saves) = 3
    /\ Len(paintings) = 2
    /\ Cardinality(ImageFiles) = 3
    /\ ManifestFiles = {}
    /\ IconFiles = {}

====
